---- MODULE Spec2Model ----
(***************************************************************************)
(* The ONNX -> binary model converter of tools/convert-onnx.py:            *)
(* graph_from_onnx_graph builds the graph in four loops over the source    *)
(* model, write_graph serializes it and main writes the output file.       *)
(*                                                                         *)
(* Conventions.  A Python value that may be None is a sequence of length   *)
(* 0 (None) or 1 (the value).  Node indices are 0-based as in the source,  *)
(* so index i is nodes[i + 1].  An exception is the tuple of its kind and  *)
(* of the values its message text is built from, so two exceptions are     *)
(* equal exactly when their messages are.  A 64-bit integer v is the pair  *)
(* [hi, lo] with v = hi * 2^31 + lo and 0 <= lo < 2^31.  float32 values    *)
(* are stood for by integers.                                              *)
(***************************************************************************)
EXTENDS Integers, Sequences, FiniteSets, TLC

MaxInitializers == 2
MaxOperators == 2
MaxAttributes == 2

INT32_MAX == 2147483647
INT32_MIN == (-2147483647) - 1

None == <<>>
Some(v) == <<v>>

---------------------------------------------------------------------------
(* The source models the conversion is run on.                             *)

I64(hi, lo) == [hi |-> hi, lo |-> lo]

\* -9999999999 and 2147483648: below and above the int32 range.
BelowRange == I64(-5, 737418241)
AboveRange == I64(1, 0)

Tensor(name, data_type, dims, data) ==
    [name |-> name, data_type |-> data_type, dims |-> dims, data |-> data]

\* int64 data [1, -9999999999, 2, 3] of shape [2, 2].
ClampedTensor(name) ==
    Tensor(name, "int64", <<2, 2>>, <<I64(0, 1), BelowRange, I64(0, 2), I64(0, 3)>>)

\* int64 data [2147483648, -9999999999, -1] of shape [3].
ValueTensor(name) ==
    Tensor(name, "int64", <<3>>, <<AboveRange, BelowRange, I64(-1, INT32_MAX)>>)

\* A tensor of an element type the converter does not support.
DoubleTensor(name) == Tensor(name, "float64", <<1>>, <<I64(0, 5)>>)

TensorNames == {"a", "b"}

Initializers ==
    {ClampedTensor(n) : n \in TensorNames} \cup {DoubleTensor("b")}

Attr(name, type, val) == [name |-> name, type |-> type, val |-> val]

Op(name, op_type, input, output, attribute) ==
    [name |-> name, op_type |-> op_type, input |-> input, output |-> output,
     attribute |-> attribute]

ConstantOps ==
    {Op("k", "Constant", <<>>, o, <<Attr("value", "tensor", ValueTensor(""))>>) :
        o \in {<<>>, <<"a">>, <<"b">>}}

ClipOps ==
    {Op("n", "Clip", <<"a">>, <<"b">>, <<>>),
     Op("n", "Clip", <<"a">>, <<"b">>, <<Attr("min", "float", 0)>>),
     Op("m", "Clip", <<"a">>, <<>>, <<Attr("max", "float", 6)>>),
     Op("m", "Clip", <<"a", "">>, <<>>, <<Attr("max", "float", 6)>>),
     Op("m", "Clip", <<"a", "">>, <<>>, <<Attr("min", "float", 0)>>),
     Op("m", "Clip", <<"a", "b">>, <<>>, <<Attr("min", "float", 0)>>),
     Op("m", "Clip", <<"a">>, <<>>, <<Attr("min", "int", 0)>>)}

\* An operator type with no case in op_node_from_onnx_operator and no name
\* in the target schema.
OtherOps == {Op("m", "Foo", <<"b">>, <<>>, <<>>)}

Operators == ConstantOps \cup ClipOps \cup OtherOps

GraphInputs == {<<>>, <<"a">>, <<"b", "a", "b">>}
GraphOutputs == {<<"b">>, <<"b", "a", "b">>}

SeqsUpTo(S, n) == UNION {[1..k -> S] : k \in 0..n}

\* The source models that exercise the attribute rules: one operator n of
\* each translated type with up to MaxAttributes attributes, a valid input a
\* and an output c, followed by an operator that consumes c.
\* The auto_pad strings that read_pads knows.
NOTSET == <<"N", "O", "T", "S", "E", "T">>
SAME_UPPER == <<"S", "A", "M", "E", "_", "U", "P", "P", "E", "R">>
SAME_LOWER == <<"S", "A", "M", "E", "_", "L", "O", "W", "E", "R">>

ScalarTensors ==
    {Tensor("", "float32", <<1>>, <<I64(0, 5)>>),
     Tensor("", "float32", <<>>, <<I64(0, 5)>>),
     Tensor("", "float32", <<1, 1>>, <<I64(0, 5)>>),
     Tensor("", "float32", <<1, 3>>, <<I64(0, 5), I64(0, 6), I64(0, 7)>>),
     Tensor("", "float32", <<3>>, <<I64(0, 5), I64(0, 6), I64(0, 7)>>),
     Tensor("", "float32", <<1, 0>>, <<>>),
     Tensor("", "int64", <<1>>, <<BelowRange>>),
     Tensor("", "int64", <<2>>, <<BelowRange, AboveRange>>),
     Tensor("", "float64", <<1>>, <<I64(0, 5)>>)}

EnumStrings ==
    {<<"n", "o", "n", "e">>, <<"a", "d", "d">>, <<"A", "d", "d">>,
     <<"A", "D", "D">>, <<"a", "D", "d">>, <<>>, <<"a", "d", "d", "_">>,
     <<"_", "a", "d", "d">>, <<"a", "_", "d", "d">>, <<"m", "_", "_", "a", "x">>,
     <<"N", "o", "n", "e">>, <<"n", "o", "n", "e", "_">>, <<"m", "a", "x">>,
     <<"s", "u", "m">>}

AttributePool(op_type) ==
    {Attr("foo", "int", 1)} \cup
    CASE op_type = "ArgMax" ->
            {Attr("axis", "int", 1), Attr("axis", "float", 1),
             Attr("keepdims", "int", 0), Attr("select_last_index", "int", 0),
             Attr("select_last_index", "int", 1)}
      [] op_type = "Clip" ->
            {Attr("min", "float", 0), Attr("max", "float", 6), Attr("max", "int", 6)}
      [] op_type = "ConstantOfShape" ->
            {Attr("value", "tensor", t) : t \in ScalarTensors}
                \cup {Attr("value", "int", 1)}
      [] op_type = "Conv" ->
            {Attr("auto_pad", "string", v) :
                v \in {NOTSET, SAME_UPPER, SAME_LOWER, <<"V", "A", "L", "I", "D">>,
                       <<"n", "o", "t", "s", "e", "t">>, <<>>}}
                \cup {Attr("auto_pad", "int", 1)}
                \cup {Attr("pads", "ints", v) :
                        v \in {<<1, 1, 1, 1>>, <<1, 2>>, <<1, 2, 3>>, <<>>,
                               <<1, 2, 3, 4, 5>>}}
                \cup {Attr("strides", "ints", <<2, 2>>), Attr("strides", "ints", <<>>),
                      Attr("group", "int", 2), Attr("dilations", "ints", <<2, 2, 2>>),
                      Attr("kernel_shape", "ints", <<3, 3>>)}
      [] op_type = "ScatterElements" ->
            {Attr("reduction", "string", v) : v \in EnumStrings}
                \cup {Attr("reduction", "int", 1), Attr("axis", "int", 1)}
      [] op_type = "Squeeze" ->
            {Attr("axes", "ints", <<0, 1>>), Attr("axes", "int", 0)}
      [] OTHER -> {}

TranslatedTypes ==
    {"ArgMax", "Clip", "ConstantOfShape", "Conv", "ScatterElements", "Squeeze", "Foo"}

TranslatedOperators ==
    UNION {{Op("n", t, <<"a">>, <<"c">>, attribute) :
                attribute \in SeqsUpTo(AttributePool(t), MaxAttributes)} :
           t \in TranslatedTypes}

Consumer == Op("m", "Clip", <<"c">>, <<>>, <<>>)

---------------------------------------------------------------------------
(* Nodes                                                                   *)

RECURSIVE Product(_)
Product(s) == IF s = <<>> THEN 1 ELSE Head(s) * Product(Tail(s))

\* ConstantNode.__init__ without the comparison of the shape with the data.
ConstantNode_unchecked(name, shape, data, dtype) ==
    IF dtype \notin {"float32", "int32"}
    THEN [err |-> Some(<<"UnsupportedConstantType", name, dtype>>), node |-> None]
    ELSE [err |-> None,
          node |-> Some([kind |-> "constant", name |-> name, shape |-> shape,
                         data |-> data, dtype |-> dtype])]

\* ConstantNode.__init__: [err, node].
ConstantNode(name, shape, data, dtype) ==
    IF Product(shape) # Len(data)
    THEN [err |-> Some(<<"ShapeMismatch", name, shape, Len(data)>>), node |-> None]
    ELSE IF dtype \notin {"float32", "int32"}
    THEN [err |-> Some(<<"UnsupportedConstantType", name, dtype>>), node |-> None]
    ELSE [err |-> None,
          node |-> Some([kind |-> "constant", name |-> name, shape |-> shape,
                         data |-> data, dtype |-> dtype])]

ValueNode(name, shape) == [kind |-> "value", name |-> name, shape |-> shape]

OperatorNode(name, op_type, attrs, inputs, outputs) ==
    [kind |-> "operator", name |-> name, op_type |-> op_type, attrs |-> attrs,
     inputs |-> inputs, outputs |-> outputs]

\* add_node that returns the length of the list after the append.
add_node_length_after(g, node) ==
    IF node.name \in DOMAIN g.tensor_map
    THEN [err |-> Some(<<"DuplicateNodeName", node.name>>), index |-> None,
          nodes |-> g.nodes, tensor_map |-> g.tensor_map]
    ELSE [err |-> None, index |-> Some(Len(g.nodes) + 1),
          nodes |-> Append(g.nodes, node),
          tensor_map |-> (node.name :> (Len(g.nodes) + 1)) @@ g.tensor_map]

\* add_node without the test for a registered name.
add_node_unchecked(g, node) ==
    [err |-> None, index |-> Some(Len(g.nodes)),
     nodes |-> Append(g.nodes, node),
     tensor_map |-> (node.name :> Len(g.nodes)) @@ g.tensor_map]

\* graph_from_onnx_graph.add_node on the graph g = [nodes, tensor_map]:
\* [err, index, nodes, tensor_map].
add_node(g, node) ==
    IF node.name \in DOMAIN g.tensor_map
    THEN [err |-> Some(<<"DuplicateNodeName", node.name>>), index |-> None,
          nodes |-> g.nodes, tensor_map |-> g.tensor_map]
    ELSE [err |-> None, index |-> Some(Len(g.nodes)),
          nodes |-> Append(g.nodes, node),
          tensor_map |-> (node.name :> Len(g.nodes)) @@ g.tensor_map]

---------------------------------------------------------------------------
(* Diagnostics                                                             *)

\* warn_once on the diagnostics d = [emitted, stderr].
warn_once(d, msg) ==
    IF msg \in d.emitted THEN d
    ELSE [emitted |-> d.emitted \cup {msg}, stderr |-> Append(d.stderr, msg)]

RECURSIVE warn_each(_, _)
warn_each(d, msgs) ==
    IF msgs = <<>> THEN d ELSE warn_each(warn_once(d, Head(msgs)), Tail(msgs))

\* print(..., file=sys.stderr)
print(d, msg) == [emitted |-> d.emitted, stderr |-> Append(d.stderr, msg)]

---------------------------------------------------------------------------
(* Constant normalisation                                                  *)

OutOfRange(v) == v.hi > 0 \/ v.hi < -1

\* clip with the upper limit alone.
clip_upper_only(v) == IF v.hi > 0 THEN I64(0, INT32_MAX) ELSE v

\* numpy clip(i32.min, i32.max) on an int64 value.
clip(v) ==
    IF v.hi > 0 THEN I64(0, INT32_MAX)
    ELSE IF v.hi < -1 THEN I64(-1, 0)
    ELSE v

\* numpy astype(int32) of an int64 value: the low 32 bits, signed.
astype_int32(v) == IF v.hi % 2 = 0 THEN v.lo ELSE v.lo + INT32_MIN

ClampMessage(v) == <<"Clamping out-of-range tensor value", v.hi, v.lo>>

Map(f(_), s) == [i \in 1..Len(s) |-> f(s[i])]

\* constant_node_from_onnx_initializer: [err, node, warnings], the warnings
\* being the messages handed to warn_once in order.
constant_node_from_onnx_initializer(tensor, op_name) ==
    LET t == tensor.data_type
        oor == SelectSeq(tensor.data, OutOfRange)
    IN  IF t \in {"float32", "int32"}
        THEN ConstantNode(tensor.name, tensor.dims, Map(astype_int32, tensor.data), t)
                @@ [warnings |-> <<>>]
        ELSE IF t \in {"bool", "int8", "int16"}
        THEN ConstantNode(tensor.name, tensor.dims, Map(astype_int32, tensor.data), "int32")
                @@ [warnings |-> <<>>]
        ELSE IF t = "int64"
        THEN ConstantNode(tensor.name, tensor.dims,
                          Map(LAMBDA v : astype_int32(clip(v)), tensor.data), "int32")
                @@ [warnings |-> Map(ClampMessage, oor)]
        ELSE [err |-> Some(<<"UnsupportedTensorType", t, op_name>>), node |-> None,
              warnings |-> <<>>]

---------------------------------------------------------------------------
(* ONNXOperatorReader.  A reader rd carries the operator record, its copy  *)
(* of the input indices, the handled attribute names, the graph g that the *)
(* add_node callback acts on, the exception raised so far (err) and the    *)
(* value returned by the last call (val).  A call on a reader whose err is *)
(* set does nothing: the exception is propagating.  The record also holds  *)
(* two things of the translation that uses the reader: its local `attrs`   *)
(* and the messages it has passed to warn_once so far (warned).            *)

ONNXOperatorReader(onnx_op, input_indexes, g) ==
    [onnx_op |-> onnx_op, input_indexes |-> input_indexes, handled |-> {},
     g |-> g, err |-> None, val |-> None, attrs |-> None, warned |-> <<>>]

Raise(rd, exc) == [rd EXCEPT !.err = Some(exc), !.val = None]

\* get_attr that marks the name once the attribute is found.
get_attr_marks_found(rd, name, expected_type, default) ==
    IF rd.err # None THEN rd
    ELSE LET marked == [rd EXCEPT !.handled = @ \cup {name}]
             found == SelectSeq(rd.onnx_op.attribute, LAMBDA a : a.name = name)
         IN  IF found = <<>> THEN [rd EXCEPT !.val = default]
             ELSE IF found[1].type # expected_type
             THEN Raise(marked, <<"AttributeTypeMismatch", name, expected_type>>)
             ELSE [marked EXCEPT !.val = Some(found[1].val)]

get_attr(rd, name, expected_type, default) ==
    IF rd.err # None THEN rd
    ELSE LET marked == [rd EXCEPT !.handled = @ \cup {name}]
             found == SelectSeq(rd.onnx_op.attribute, LAMBDA a : a.name = name)
         IN  IF found = <<>> THEN [marked EXCEPT !.val = default]
             ELSE IF found[1].type # expected_type
             THEN Raise(marked, <<"AttributeTypeMismatch", name, expected_type>>)
             ELSE [marked EXCEPT !.val = Some(found[1].val)]

ignore_attr(rd, name) ==
    IF rd.err # None THEN rd ELSE [rd EXCEPT !.handled = @ \cup {name}]

require_attr(rd, name, expected_type) ==
    LET r == get_attr(rd, name, expected_type, None)
    IN  IF r.err # None THEN r
        ELSE IF r.val = None THEN Raise(r, <<"MissingRequiredAttribute", name>>)
        ELSE r

\* A string that the code takes apart is the sequence of its characters.
Lowercase ==
    <<"a", "b", "c", "d", "e", "f", "g", "h", "i", "j", "k", "l", "m",
      "n", "o", "p", "q", "r", "s", "t", "u", "v", "w", "x", "y", "z">>

Uppercase ==
    <<"A", "B", "C", "D", "E", "F", "G", "H", "I", "J", "K", "L", "M",
      "N", "O", "P", "Q", "R", "S", "T", "U", "V", "W", "X", "Y", "Z">>

\* str.upper on one character.
upper(c) ==
    IF \E i \in DOMAIN Lowercase : Lowercase[i] = c
    THEN Uppercase[CHOOSE i \in DOMAIN Lowercase : Lowercase[i] = c]
    ELSE c

\* s.split("_"): the words between the underscores, empty words included.
RECURSIVE split(_)
split(s) ==
    IF \A i \in DOMAIN s : s[i] # "_" THEN <<s>>
    ELSE LET at == CHOOSE i \in DOMAIN s :
                       s[i] = "_" /\ \A j \in 1..(i - 1) : s[j] # "_"
         IN  <<SubSeq(s, 1, at - 1)>> \o split(SubSeq(s, at + 1, Len(s)))

\* "".join(words)
RECURSIVE join(_)
join(words) == IF words = <<>> THEN <<>> ELSE Head(words) \o join(Tail(words))

\* snake_case_to_pascal_case: [err, val].  word[0] of an empty word raises
\* IndexError.
snake_case_to_pascal_case(s) ==
    LET words == split(s)
    IN  IF \E i \in DOMAIN words : words[i] = <<>>
        THEN [err |-> Some(<<"IndexError", "string index out of range">>),
              val |-> None]
        ELSE [err |-> None,
              val |-> Some(join([i \in DOMAIN words |->
                                   <<upper(words[i][1])>> \o Tail(words[i])]))]

\* get_enum_attr; enum is the set of the variant names of the enum class and
\* val becomes the name of the variant found.
get_enum_attr(rd, name, enum, default) ==
    LET r == get_attr(rd, name, "string", Some(default))
    IN  IF r.err # None THEN r
        ELSE LET val == r.val[1]
                 pascal == snake_case_to_pascal_case(val)
             IN  IF pascal.err # None THEN Raise(r, pascal.err[1])
                 ELSE LET pascal_case == pascal.val[1]
                          escaped_pascal_case == pascal_case \o <<"_">>
                      IN  IF pascal_case \in enum
                          THEN [r EXCEPT !.val = Some(pascal_case)]
                          ELSE IF escaped_pascal_case \in enum
                          THEN [r EXCEPT !.val = Some(escaped_pascal_case)]
                          ELSE Raise(r, <<"UnsupportedEnumValue", name, val>>)

\* check_attr; default is the set of the accepted values.
check_attr(rd, name, expected_type, default) ==
    LET r == get_attr(rd, name, expected_type, None)
    IN  IF r.err # None \/ r.val = None THEN r
        ELSE IF r.val[1] \notin default
        THEN Raise(r, <<"UnsupportedAttributeValue", name, r.val[1]>>)
        ELSE [r EXCEPT !.val = None]

\* The input list with input_id at position input_index (0-based), padded
\* with None up to it.
PutInput(input_indexes, input_index, input_id) ==
    [i \in 1..(IF Len(input_indexes) < input_index + 1
               THEN input_index + 1 ELSE Len(input_indexes)) |->
        IF i = input_index + 1 THEN Some(input_id)
        ELSE IF i <= Len(input_indexes) THEN input_indexes[i]
        ELSE None]

\* The test with a None entry taken as no input.
HasInputAt_reference(input_indexes, input_index) ==
    /\ input_index < Len(input_indexes)
    /\ input_indexes[input_index + 1] # None

\* The test of generate_input_from_attr for an input at input_index.
HasInputAt(input_indexes, input_index) == input_index < Len(input_indexes)

generate_input_from_attr(rd, input_index, attr_name, attr_type) ==
    LET r == get_attr(rd, attr_name, attr_type, None)
    IN  IF r.err # None \/ r.val = None THEN r
        ELSE IF HasInputAt(r.input_indexes, input_index)
        THEN Raise(r, <<"ConflictingAttributeAndInput", attr_name, input_index>>)
        ELSE IF attr_type \notin {"int", "float", "ints"}
        THEN Raise(r, <<"UnsupportedGeneratedInputType", attr_name, attr_type>>)
        ELSE LET attr_val == r.val[1]
                 shape == IF attr_type = "ints" THEN <<Len(attr_val)>> ELSE <<>>
                 data == IF attr_type = "ints" THEN attr_val ELSE <<attr_val>>
                 dtype == IF attr_type = "float" THEN "float32" ELSE "int32"
                 generated_name == r.onnx_op.name \o ":wasnn-" \o attr_name
                 const_node == ConstantNode(generated_name, shape, data, dtype)
             IN  IF const_node.err # None THEN Raise(r, const_node.err[1])
                 ELSE LET added == add_node(r.g, const_node.node[1])
                      IN  IF added.err # None THEN Raise(r, added.err[1])
                          ELSE [r EXCEPT
                                  !.g = [nodes |-> added.nodes,
                                         tensor_map |-> added.tensor_map],
                                  !.input_indexes =
                                      PutInput(@, input_index, added.index[1]),
                                  !.val = None]

unhandled_attrs(rd) ==
    SelectSeq(rd.onnx_op.attribute, LAMBDA a : a.name \notin rd.handled)

---------------------------------------------------------------------------
(* Operator translation                                                    *)

\* constant_node_from_onnx_constant_op: [err, node, warnings].
constant_node_from_onnx_constant_op(onnx_op) ==
    IF Len(onnx_op.output) = 0
    THEN [err |-> Some(<<"NoOutputs", onnx_op.name>>), node |-> None,
          warnings |-> <<>>]
    ELSE LET output_name == onnx_op.output[1]
             rd == require_attr(
                       ONNXOperatorReader(onnx_op, <<>>,
                                          [nodes |-> <<>>, tensor_map |-> <<>>]),
                       "value", "tensor")
         IN  IF rd.err # None
             THEN [err |-> rd.err, node |-> None, warnings |-> <<>>]
             ELSE LET c == constant_node_from_onnx_initializer(rd.val[1], output_name)
                  IN  IF c.err # None THEN c
                      ELSE [c EXCEPT !.node = Some([c.node[1] EXCEPT !.name = output_name])]

value_node_from_onnx_value(name) == ValueNode(name, None)

\* The names of sg.OperatorType, the operator names of the target schema.
OperatorType ==
    {"ArgMax", "Clip", "ConstantOfShape", "Conv", "Gemm", "ScatterElements",
     "Split", "Squeeze", "Unsqueeze"}

\* The variant names of sg.ScatterReduction; the variant `none` is spelled
\* with the trailing underscore that escapes a Python keyword.
ScatterReduction ==
    {<<"N", "o", "n", "e", "_">>, <<"A", "d", "d">>, <<"M", "u", "l">>,
     <<"M", "i", "n">>, <<"M", "a", "x">>}

\* read_pads that takes a list of any length.
read_pads_any_length(rd) ==
    LET a == get_attr(rd, "auto_pad", "string", Some(NOTSET))
    IN  IF a.err # None THEN a
        ELSE IF a.val[1] \in {SAME_UPPER, SAME_LOWER}
        THEN [a EXCEPT !.val = Some([pad_mode |-> "same", pads |-> <<>>])]
        ELSE IF a.val[1] = NOTSET
        THEN LET p == get_attr(a, "pads", "ints", Some(<<0, 0, 0, 0>>))
             IN  IF p.err # None THEN p
                 ELSE [p EXCEPT !.val = Some([pad_mode |-> "fixed", pads |-> p.val[1]])]
        ELSE Raise(a, <<"UnsupportedPadMode", a.val[1]>>)

\* read_pads: val becomes (pad_mode, pads).
read_pads(rd) ==
    LET a == get_attr(rd, "auto_pad", "string", Some(NOTSET))
    IN  IF a.err # None THEN a
        ELSE IF a.val[1] \in {SAME_UPPER, SAME_LOWER}
        THEN [a EXCEPT !.val = Some([pad_mode |-> "same", pads |-> <<>>])]
        ELSE IF a.val[1] = NOTSET
        THEN LET p == get_attr(a, "pads", "ints", Some(<<0, 0, 0, 0>>))
             IN  IF p.err # None THEN p
                 ELSE IF Len(p.val[1]) \notin {2, 4}
                 THEN Raise(p, <<"InvalidAttributeLength", "padding", {2, 4}>>)
                 ELSE [p EXCEPT !.val = Some([pad_mode |-> "fixed", pads |-> p.val[1]])]
        ELSE Raise(a, <<"UnsupportedPadMode", a.val[1]>>)

read_strides(rd) ==
    LET r == get_attr(rd, "strides", "ints", Some(<<1, 1>>))
    IN  IF r.err # None THEN r
        ELSE IF Len(r.val[1]) \notin {1, 2}
        THEN Raise(r, <<"InvalidAttributeLength", "strides", {1, 2}>>)
        ELSE r

read_dilations(rd) ==
    LET r == get_attr(rd, "dilations", "ints", Some(<<1, 1>>))
    IN  IF r.err # None THEN r
        ELSE IF Len(r.val[1]) \notin {1, 2}
        THEN Raise(r, <<"InvalidAttributeLength", "dilations", {1, 2}>>)
        ELSE r

\* len() of the numpy array of a constant node built from a tensor, whose
\* array has the tensor's dims: [err, val].
len(node) ==
    IF node.shape = <<>>
    THEN [err |-> Some(<<"TypeError", "len() of unsized object">>), val |-> None]
    ELSE [err |-> None, val |-> Some(node.shape[1])]

\* numpy item(): [err, val].
item(node) ==
    IF Len(node.data) # 1
    THEN [err |-> Some(<<"ValueError", "can only convert an array of size 1 to a Python scalar">>),
          val |-> None]
    ELSE [err |-> None, val |-> Some(node.data[1])]

\* The translation without the test of the operator name.
IsTargetOperator_any(op_type) == TRUE

\* hasattr(sg.OperatorType, op_type)
IsTargetOperator(op_type) == op_type \in OperatorType

\* The lookup with an empty name looked up like any other.
Unresolved_empty_looked_up(names, tensor_map, allow_empty) ==
    LET bad == {i \in 1..Len(names) : names[i] \notin DOMAIN tensor_map}
    IN  IF bad = {} THEN None
        ELSE Some(names[CHOOSE i \in bad : \A j \in bad : i <= j])

\* The first name of `names` that is looked up and not registered, if any.
Unresolved(names, tensor_map, allow_empty) ==
    LET bad == {i \in 1..Len(names) :
                  /\ ~(allow_empty /\ names[i] = "")
                  /\ names[i] \notin DOMAIN tensor_map}
    IN  IF bad = {} THEN None
        ELSE Some(names[CHOOSE i \in bad : \A j \in bad : i <= j])

\* The `match op_type` of op_node_from_onnx_operator, for the operator types
\* of the source models above; a type with no case is left as it is.
ReadArgMax(rd) ==
    LET axis == get_attr(rd, "axis", "int", None)
        keepdims == get_attr(axis, "keepdims", "int", Some(1))
        checked == check_attr(keepdims, "select_last_index", "int", {0})
    IN  IF checked.err # None THEN checked
        ELSE [checked EXCEPT
                !.attrs = Some([type |-> "ArgMaxAttrs", axes |-> axis.val,
                                keepDims |-> keepdims.val[1] # 0])]

ReadConstantOfShape(rd) ==
    LET tensor == require_attr(rd, "value", "tensor")
    IN  IF tensor.err # None THEN tensor
        ELSE
        LET c == constant_node_from_onnx_initializer(tensor.val[1], rd.onnx_op.name)
            warned == [tensor EXCEPT !.warned = @ \o c.warnings, !.val = None]
        IN  IF c.err # None THEN Raise(warned, c.err[1])
            ELSE IF len(c.node[1]).err # None THEN Raise(warned, len(c.node[1]).err[1])
            ELSE IF len(c.node[1]).val[1] # 1
            THEN Raise(warned, <<"InvalidScalarShape", "ConstantOfShape">>)
            ELSE IF item(c.node[1]).err # None THEN Raise(warned, item(c.node[1]).err[1])
            ELSE [warned EXCEPT
                    !.attrs = Some([type |-> "ConstantOfShapeAttrs",
                                    valueType |-> IF c.node[1].dtype = "float32"
                                                  THEN "FloatScalar" ELSE "IntScalar",
                                    value |-> item(c.node[1]).val[1]])]

ReadConv(rd) ==
    LET dilations == read_dilations(rd)
        group == get_attr(dilations, "group", "int", Some(1))
        pads == read_pads(group)
        strides == read_strides(pads)
        ignored == ignore_attr(strides, "kernel_shape")
    IN  IF ignored.err # None THEN ignored
        ELSE [ignored EXCEPT
                !.val = None,
                !.attrs = Some([type |-> "ConvAttrs",
                                dilations |-> dilations.val[1],
                                groups |-> group.val[1],
                                padMode |-> IF pads.val[1].pad_mode = "same"
                                            THEN "Same" ELSE "Fixed",
                                pads |-> IF pads.val[1].pad_mode = "same"
                                         THEN None ELSE Some(pads.val[1].pads),
                                strides |-> strides.val[1]])]

ReadScatterElements(rd) ==
    LET axis == get_attr(rd, "axis", "int", Some(0))
        reduction == get_enum_attr(axis, "reduction", ScatterReduction,
                                   <<"n", "o", "n", "e">>)
    IN  IF reduction.err # None THEN reduction
        ELSE [reduction EXCEPT
                !.val = None,
                !.attrs = Some([type |-> "ScatterElementsAttrs",
                                axis |-> axis.val[1],
                                reduction |-> reduction.val[1]])]

ReadAttrs(rd, op_type) ==
    CASE op_type = "ArgMax" -> ReadArgMax(rd)
      [] op_type = "Clip" ->
            generate_input_from_attr(
                generate_input_from_attr(rd, 1, "min", "float"), 2, "max", "float")
      [] op_type = "ConstantOfShape" -> ReadConstantOfShape(rd)
      [] op_type = "Conv" -> ReadConv(rd)
      [] op_type = "ScatterElements" -> ReadScatterElements(rd)
      [] op_type = "Squeeze" -> generate_input_from_attr(rd, 1, "axes", "ints")
      [] OTHER -> rd

UnhandledMessage(attr, onnx_op) ==
    <<"WARNING: Unsupported attribute", attr.name, onnx_op.op_type>>

\* The end with the warnings issued before the test of the operator name.
Translated_warning_first(rd, onnx_op, output_indexes) ==
    LET unhandled == Map(LAMBDA a : UnhandledMessage(a, onnx_op), unhandled_attrs(rd))
    IN  IF rd.err # None
        THEN [err |-> rd.err, node |-> None, g |-> rd.g, warnings |-> rd.warned]
        ELSE IF ~IsTargetOperator(onnx_op.op_type)
        THEN [err |-> Some(<<"UnsupportedOperator", onnx_op.op_type>>), node |-> None,
              g |-> rd.g, warnings |-> rd.warned \o unhandled]
        ELSE [err |-> None,
              node |-> Some(OperatorNode(onnx_op.name, onnx_op.op_type, rd.attrs,
                                         rd.input_indexes, output_indexes)),
              g |-> rd.g,
              warnings |-> rd.warned \o unhandled]

\* The end of op_node_from_onnx_operator, once the `match` has run on the
\* reader rd: the exception the match raised, or the test of the operator
\* name, the warnings for the unhandled attributes and the operator node.
\* The warnings are everything passed to warn_once, in order.
Translated(rd, onnx_op, output_indexes) ==
    IF rd.err # None
    THEN [err |-> rd.err, node |-> None, g |-> rd.g, warnings |-> rd.warned]
    ELSE IF ~IsTargetOperator(onnx_op.op_type)
    THEN [err |-> Some(<<"UnsupportedOperator", onnx_op.op_type>>), node |-> None,
          g |-> rd.g, warnings |-> rd.warned]
    ELSE [err |-> None,
          node |-> Some(OperatorNode(onnx_op.name, onnx_op.op_type, rd.attrs,
                                     rd.input_indexes, output_indexes)),
          g |-> rd.g,
          warnings |-> rd.warned \o
                       Map(LAMBDA a : UnhandledMessage(a, onnx_op), unhandled_attrs(rd))]

\* op_node_from_onnx_operator on the graph g: [err, node, g, warnings].  g is
\* the graph after the call, whether it raised or not.
op_node_from_onnx_operator(onnx_op, g) ==
    LET bad_input == Unresolved(onnx_op.input, g.tensor_map, TRUE)
        bad_output == Unresolved(onnx_op.output, g.tensor_map, FALSE)
        failed(exc, graph) ==
            [err |-> Some(exc), node |-> None, g |-> graph, warnings |-> <<>>]
    IN  IF bad_input # None
        THEN failed(<<"UnknownReference", "input", bad_input[1], onnx_op.name>>, g)
        ELSE IF bad_output # None
        THEN failed(<<"UnknownReference", "output", bad_output[1], onnx_op.name>>, g)
        ELSE
        LET input_indexes ==
                [i \in 1..Len(onnx_op.input) |->
                    IF onnx_op.input[i] = "" THEN None
                    ELSE Some(g.tensor_map[onnx_op.input[i]])]
            output_indexes ==
                [i \in 1..Len(onnx_op.output) |-> Some(g.tensor_map[onnx_op.output[i]])]
            op_type == onnx_op.op_type
            rd == ReadAttrs(ONNXOperatorReader(onnx_op, input_indexes, g), op_type)
        IN  Translated(rd, onnx_op, output_indexes)

---------------------------------------------------------------------------
(* Serialization                                                           *)

\* build_operator_node.node_id
node_id(maybe_id) == IF maybe_id = None THEN -1 ELSE maybe_id[1]

\* write_vec: the items are prepended in reverse, which stores them in order.
RECURSIVE Prepended(_, _)
Prepended(vec, rest) ==
    IF rest = <<>> THEN vec ELSE Prepended(<<Head(rest)>> \o vec, Tail(rest))

Reversed(data) == Prepended(<<>>, data)

\* write_vec that prepends the items in their own order.
write_vec_forward(data) == Prepended(<<>>, data)

write_vec(data) == Prepended(<<>>, Reversed(data))

build_node(node) ==
    CASE node.kind = "constant" ->
            [name |-> node.name, data_type |-> "ConstantNode",
             shape |-> write_vec(node.shape), data |-> node.data,
             const_data_type |-> IF node.dtype = "float32" THEN "FloatData" ELSE "IntData"]
      [] node.kind = "operator" ->
            [name |-> node.name, data_type |-> "OperatorNode", type |-> node.op_type,
             attrs |-> node.attrs,
             inputs |-> Map(node_id, node.inputs),
             outputs |-> Map(node_id, node.outputs)]
      [] node.kind = "value" ->
            [name |-> node.name, data_type |-> "ValueNode",
             shape |-> IF node.shape = None THEN None ELSE Some(write_vec(node.shape[1]))]

SchemaVersion == 1

\* The buffer write_graph builds for a graph.
Serialized(gr) ==
    [schema_version |-> SchemaVersion,
     nodes |-> write_vec(Map(build_node, gr.nodes)),
     inputs |-> write_vec(gr.inputs),
     outputs |-> write_vec(gr.outputs)]

\* write_graph with the file opened before the buffer is built.
write_graph_open_first(gr, file, builder_ok) ==
    IF ~builder_ok
    THEN [err |-> Some(<<"SerializationError">>), out_file |-> Some(<<>>)]
    ELSE [err |-> None, out_file |-> Some(Serialized(gr))]

\* write_graph: [err, out_file].  builder_ok is whether the serialization
\* library builds the buffer without raising.  The file is opened once the
\* buffer is complete.
write_graph(gr, file, builder_ok) ==
    IF ~builder_ok
    THEN [err |-> Some(<<"SerializationError">>), out_file |-> file]
    ELSE [err |-> None, out_file |-> Some(Serialized(gr))]

---------------------------------------------------------------------------
(* The conversion run: main                                                *)

VARIABLES
    onnx_graph,         \* the source model: initializer, node, input, output
    pc,                 \* the statement the run is at
    idx,                \* position of the current item in the list being looped over
    nodes,              \* graph_from_onnx_graph: nodes
    tensor_map,         \* graph_from_onnx_graph: tensor_map
    conversion_errors,  \* graph_from_onnx_graph: conversion_errors
    EMITTED_WARNINGS,   \* the module's set of emitted warnings
    stderr,             \* what has been printed to standard error, in order
    graph,              \* the Graph returned by graph_from_onnx_graph, or None
    raised,             \* the exception that ended the run, or None
    out_file,           \* the content written to the output path, or None
    log                 \* history: one record per item processed

vars == <<onnx_graph, pc, idx, nodes, tensor_map, conversion_errors,
          EMITTED_WARNINGS, stderr, graph, raised, out_file, log>>

G == [nodes |-> nodes, tensor_map |-> tensor_map]
D == [emitted |-> EMITTED_WARNINGS, stderr |-> stderr]

\* The first position >= i of an operator of the wanted kind, or 0.
NextOperator(og, i, constants) ==
    LET at == {j \in i..Len(og.node) : (og.node[j].op_type = "Constant") = constants}
    IN  IF at = {} THEN 0 ELSE CHOOSE j \in at : \A k \in at : j <= k

\* Where control is once the loop `loop` of graph_from_onnx_graph is at
\* position i: in that loop if it has an item left, else in what follows it.
OperatorsFrom(og, i) ==
    IF NextOperator(og, i, FALSE) # 0
    THEN <<"operator", NextOperator(og, i, FALSE)>> ELSE <<"check_operators", 0>>

InputsFrom(og, i) ==
    IF i <= Len(og.input) THEN <<"input", i>> ELSE OperatorsFrom(og, 1)

ConstantsFrom(og, i) ==
    IF NextOperator(og, i, TRUE) # 0
    THEN <<"constant_op", NextOperator(og, i, TRUE)>> ELSE <<"check_constants", 0>>

InitializersFrom(og, i) ==
    IF i <= Len(og.initializer) THEN <<"initializer", i>> ELSE ConstantsFrom(og, 1)

Goto(pos) == pc' = pos[1] /\ idx' = pos[2]

Entry(phase, exc, caught, known) ==
    [phase |-> phase, item |-> idx, exc |-> exc, caught |-> caught,
     errors_before |-> conversion_errors, nodes_before |-> Len(nodes),
     known |-> known]

\* The check with the count compared to 1.
MustAbort_above_one(errors) == errors > 1

\* The check that ends a group of loops: `if conversion_errors > 0`.
MustAbort(errors) == errors > 0

\* `conversion_errors = 1` in place of `conversion_errors += 1`.
Counted_assigned(errors, exc) == IF exc = None THEN errors ELSE 1

\* The count after an item whose `try` ended with exc: the `except` clause
\* runs `conversion_errors += 1`.
Counted(errors, exc) == IF exc = None THEN errors ELSE errors + 1

\* The indices with a repeated name kept once.
NodeIndexes_deduplicated(names, map) ==
    LET first == {i \in 1..Len(names) : \A j \in 1..(i - 1) : names[j] # names[i]}
        nth(k) == CHOOSE i \in first : Cardinality({j \in first : j < i}) = k - 1
    IN  [k \in 1..Cardinality(first) |-> map[names[nth(k)]]]

\* `[tensor_map[info.name] for info in ...]`
NodeIndexes(names, map) == [i \in 1..Len(names) |-> map[names[i]]]

Init ==
    /\ onnx_graph \in [initializer : SeqsUpTo(Initializers, MaxInitializers),
                       node : SeqsUpTo(Operators, MaxOperators),
                       input : GraphInputs,
                       output : GraphOutputs]
    /\ pc = InitializersFrom(onnx_graph, 1)[1]
    /\ idx = InitializersFrom(onnx_graph, 1)[2]
    /\ nodes = <<>>
    /\ tensor_map = <<>>
    /\ conversion_errors = 0
    /\ EMITTED_WARNINGS = {}
    /\ stderr = <<>>
    /\ graph = None
    /\ raised = None
    /\ out_file = None
    /\ log = <<>>

\* The body of a `try` that builds a constant node and adds it: [exc, g].
AddConstant(c) ==
    IF c.err # None THEN [exc |-> c.err, g |-> G]
    ELSE LET added == add_node(G, c.node[1])
         IN  [exc |-> added.err,
              g |-> [nodes |-> added.nodes, tensor_map |-> added.tensor_map]]

\* One iteration of `for tensor in onnx_graph.initializer`.
Initializer ==
    /\ pc = "initializer"
    /\ \E c \in {constant_node_from_onnx_initializer(onnx_graph.initializer[idx], "None")} :
       \E r \in {AddConstant(c)} :
       \E d \in {IF r.exc = None THEN warn_each(D, c.warnings)
                 ELSE warn_once(warn_each(D, c.warnings),
                                <<"Error converting initializer">> \o r.exc[1])} :
           /\ nodes' = r.g.nodes
           /\ tensor_map' = r.g.tensor_map
           /\ conversion_errors' = Counted(conversion_errors, r.exc)
           /\ EMITTED_WARNINGS' = d.emitted
           /\ stderr' = d.stderr
           /\ log' = Append(log, Entry("initializer", r.exc, TRUE, DOMAIN tensor_map))
    /\ Goto(InitializersFrom(onnx_graph, idx + 1))
    /\ UNCHANGED <<onnx_graph, graph, raised, out_file>>

\* One iteration of the first `for operator in onnx_graph.node` on a
\* Constant operator; the iterations on other operators only `continue`.
ConstantOperator ==
    /\ pc = "constant_op"
    /\ \E c \in {constant_node_from_onnx_constant_op(onnx_graph.node[idx])} :
       \E r \in {AddConstant(c)} :
       \E d \in {IF r.exc = None THEN warn_each(D, c.warnings)
                 ELSE warn_once(warn_each(D, c.warnings),
                                <<"Error converting Constant operator">> \o r.exc[1])} :
           /\ nodes' = r.g.nodes
           /\ tensor_map' = r.g.tensor_map
           /\ conversion_errors' = Counted(conversion_errors, r.exc)
           /\ EMITTED_WARNINGS' = d.emitted
           /\ stderr' = d.stderr
           /\ log' = Append(log, Entry("constant_op", r.exc, TRUE, DOMAIN tensor_map))
    /\ Goto(ConstantsFrom(onnx_graph, idx + 1))
    /\ UNCHANGED <<onnx_graph, graph, raised, out_file>>

\* `if conversion_errors > 0: raise ValueError(... constants)`
CheckConstants ==
    /\ pc = "check_constants"
    /\ IF MustAbort(conversion_errors)
       THEN /\ raised' = Some(<<"ConversionFailed", conversion_errors, "constants">>)
            /\ Goto(<<"raised", 0>>)
       ELSE /\ raised' = raised
            /\ Goto(InputsFrom(onnx_graph, 1))
    /\ UNCHANGED <<onnx_graph, nodes, tensor_map, conversion_errors,
                   EMITTED_WARNINGS, stderr, graph, out_file, log>>

\* One iteration of `for value in onnx_graph.input`.
GraphInput ==
    /\ pc = "input"
    /\ \E name \in {onnx_graph.input[idx]} :
       \E added \in {add_node(G, value_node_from_onnx_value(name))} :
           IF name \in DOMAIN tensor_map
           THEN UNCHANGED <<nodes, tensor_map>>
           ELSE nodes' = added.nodes /\ tensor_map' = added.tensor_map
    /\ log' = Append(log, Entry("input", None, TRUE, DOMAIN tensor_map))
    /\ Goto(InputsFrom(onnx_graph, idx + 1))
    /\ UNCHANGED <<onnx_graph, conversion_errors, EMITTED_WARNINGS, stderr,
                   graph, raised, out_file>>

\* `for output_name in operator.output: add_node(ValueNode(...))`: [err, g],
\* stopping at the first add_node that raises.
RECURSIVE AddOutputs(_, _)
AddOutputs(g, names) ==
    IF names = <<>> THEN [err |-> None, g |-> g]
    ELSE LET added == add_node(g, ValueNode(Head(names), None))
         IN  IF added.err # None THEN [err |-> added.err, g |-> g]
             ELSE AddOutputs([nodes |-> added.nodes, tensor_map |-> added.tensor_map],
                             Tail(names))

\* `add_node(op_node)` on the result r of op_node_from_onnx_operator.
AddTranslated(r) ==
    IF r.err # None THEN [exc |-> r.err, g |-> r.g, warnings |-> r.warnings]
    ELSE LET added == add_node(r.g, r.node[1])
         IN  [exc |-> added.err,
              g |-> [nodes |-> added.nodes, tensor_map |-> added.tensor_map],
              warnings |-> r.warnings]

\* The `try` body that leaves the graph as it found it when it raises.
AddOperator_discarding(operator, g) ==
    IF AddTranslated(op_node_from_onnx_operator(operator, g)).exc # None
    THEN [AddTranslated(op_node_from_onnx_operator(operator, g)) EXCEPT !.g = g]
    ELSE AddTranslated(op_node_from_onnx_operator(operator, g))

\* The `try` body of the operator loop: [exc, g, warnings].
AddOperator(operator, g) == AddTranslated(op_node_from_onnx_operator(operator, g))

\* One iteration of the second `for operator in onnx_graph.node` on an
\* operator that is not a Constant.
Operator ==
    /\ pc = "operator"
    /\ \E operator \in {onnx_graph.node[idx]} :
       \E outs \in {AddOutputs(G, operator.output)} :
       \E r \in {AddOperator(operator, outs.g)} :
       \E d \in {IF r.exc = None THEN warn_each(D, r.warnings)
                 ELSE print(warn_each(D, r.warnings),
                            <<"Error converting operator", operator.op_type,
                              operator.name>> \o r.exc[1])} :
           IF outs.err # None
           THEN /\ nodes' = outs.g.nodes
                /\ tensor_map' = outs.g.tensor_map
                /\ raised' = outs.err
                /\ log' = Append(log, Entry("operator", outs.err, FALSE,
                                            DOMAIN outs.g.tensor_map))
                /\ Goto(<<"raised", 0>>)
                /\ UNCHANGED <<conversion_errors, EMITTED_WARNINGS, stderr>>
           ELSE /\ nodes' = r.g.nodes
                /\ tensor_map' = r.g.tensor_map
                /\ conversion_errors' = Counted(conversion_errors, r.exc)
                /\ EMITTED_WARNINGS' = d.emitted
                /\ stderr' = d.stderr
                /\ log' = Append(log, Entry("operator", r.exc, TRUE,
                                            DOMAIN outs.g.tensor_map))
                /\ Goto(OperatorsFrom(onnx_graph, idx + 1))
                /\ UNCHANGED raised
    /\ UNCHANGED <<onnx_graph, graph, out_file>>

\* The end of graph_from_onnx_graph: the check on the operators' errors and
\* the lookup of the declared inputs and outputs.
CheckOperators ==
    /\ pc = "check_operators"
    /\ \E missing \in {Unresolved(onnx_graph.input \o onnx_graph.output,
                                   tensor_map, FALSE)} :
           IF MustAbort(conversion_errors)
           THEN /\ raised' = Some(<<"ConversionFailed", conversion_errors, "operators">>)
                /\ graph' = graph
                /\ Goto(<<"raised", 0>>)
           ELSE IF missing # None
           THEN /\ raised' = Some(<<"KeyError", missing[1]>>)
                /\ graph' = graph
                /\ Goto(<<"raised", 0>>)
           ELSE /\ raised' = raised
                /\ graph' = Some([nodes |-> nodes,
                                  inputs |-> NodeIndexes(onnx_graph.input, tensor_map),
                                  outputs |-> NodeIndexes(onnx_graph.output, tensor_map)])
                /\ Goto(<<"write_graph", 0>>)
    /\ UNCHANGED <<onnx_graph, nodes, tensor_map, conversion_errors,
                   EMITTED_WARNINGS, stderr, out_file, log>>

\* main's call of write_graph.
WriteGraph ==
    /\ pc = "write_graph"
    /\ \E builder_ok \in BOOLEAN :
       \E w \in {write_graph(graph[1], out_file, builder_ok)} :
              /\ out_file' = w.out_file
              /\ raised' = w.err
              /\ Goto(IF w.err = None THEN <<"done", 0>> ELSE <<"raised", 0>>)
    /\ UNCHANGED <<onnx_graph, nodes, tensor_map, conversion_errors,
                   EMITTED_WARNINGS, stderr, graph, log>>

Next ==
    \/ Initializer
    \/ ConstantOperator
    \/ CheckConstants
    \/ GraphInput
    \/ Operator
    \/ CheckOperators
    \/ WriteGraph

Spec == Init /\ [][Next]_vars

\* The runs on the source models that exercise the attribute rules.
TranslationInit ==
    /\ onnx_graph \in
          [initializer : {<<ClampedTensor("a")>>},
           node : {<<Op("k", "Constant", <<>>, <<"b">>,
                       <<Attr("value", "tensor", ValueTensor(""))>>),
                     operator, Consumer>> : operator \in TranslatedOperators},
           input : {<<"a">>},
           output : {<<"b">>}]
    /\ pc = InitializersFrom(onnx_graph, 1)[1]
    /\ idx = InitializersFrom(onnx_graph, 1)[2]
    /\ nodes = <<>>
    /\ tensor_map = <<>>
    /\ conversion_errors = 0
    /\ EMITTED_WARNINGS = {}
    /\ stderr = <<>>
    /\ graph = None
    /\ raised = None
    /\ out_file = None
    /\ log = <<>>

TranslationSpec == TranslationInit /\ [][Next]_vars

---------------------------------------------------------------------------
(* Properties                                                              *)

Range(s) == {s[i] : i \in 1..Len(s)}

Entries(phases) == {i \in DOMAIN log : log[i].phase \in phases}

ConstantPhases == {"initializer", "constant_op"}

Failed(S) == {i \in S : log[i].exc # None}

CaughtFailed(S) == {i \in S : log[i].exc # None /\ log[i].caught}

ConstantOperatorsAt == {j \in DOMAIN onnx_graph.node : onnx_graph.node[j].op_type = "Constant"}

OtherOperatorsAt == DOMAIN onnx_graph.node \ ConstantOperatorsAt

NumConstantItems == Len(onnx_graph.initializer) + Cardinality(ConstantOperatorsAt)

RaisedKind == IF raised = None THEN "" ELSE raised[1][1]

Ended == pc \in {"done", "raised"}

AfterConstants == {"input", "operator", "check_operators", "write_graph", "done"}

\* C1, as claimed: between every two consecutive phases, phase 1 and phase 2
\* included, no item of the later phase is processed once the earlier phase
\* has ended with errors.
C1_AsClaimed ==
    \A i \in 2..Len(log) :
        log[i].phase # log[i - 1].phase => log[i].errors_before = 0

\* C1, amended: the errors of phases 1 and 2 are counted together and checked
\* once, after every item of both phases has been processed; a count above 0
\* then aborts the run with ConversionFailed(count) before any item of phase
\* 3 or 4 is processed, and a graph is returned only with a count of 0.
C1_AbortAfterConstants ==
    LET failed == Failed(Entries(ConstantPhases))
    IN  /\ Entries({"input", "operator"}) # {} => failed = {}
        /\ pc \in AfterConstants => failed = {}
        /\ pc \notin ConstantPhases =>
              Cardinality(Entries(ConstantPhases)) = NumConstantItems
        /\ (failed # {} /\ pc \notin (ConstantPhases \cup {"check_constants"})) =>
              /\ pc = "raised"
              /\ raised = Some(<<"ConversionFailed", Cardinality(failed), "constants">>)
        /\ graph # None => Failed(DOMAIN log) = {}

\* C1 witness: the run is aborted after phase 2, in which a Constant operator
\* was processed after an initializer had failed, with graph inputs pending.
C1_Witness ==
    /\ pc = "raised"
    /\ RaisedKind = "ConversionFailed"
    /\ \E i \in Entries({"constant_op"}) : log[i].errors_before > 0
    /\ onnx_graph.input # <<>>
    /\ Entries({"input", "operator"}) = {}

\* C2, as claimed: every error raised while an item of phase 1, 2 or 4 is
\* processed, the registration of an operator's output placeholders
\* included, is caught at the item level, and a run in which an item failed
\* ends with ConversionFailed.
C2_AsClaimed ==
    /\ \A i \in DOMAIN log : log[i].exc # None => log[i].caught
    /\ (Ended /\ Failed(DOMAIN log) # {}) => RaisedKind = "ConversionFailed"

\* C2, amended: an error raised while an initializer, a Constant operator or
\* a general operator's translation (input and output resolution, attribute
\* rule, registration of the operator node) is processed is caught, adds
\* exactly one to the error count, and the remaining items of the phase are
\* processed, the run ending with ConversionFailed(count of the failed items
\* of that check); an error raised while an operator's output placeholders
\* are registered is not caught and ends the run at once with
\* DuplicateNodeName.
C2_ItemErrorsCounted ==
    /\ conversion_errors = Cardinality(CaughtFailed(DOMAIN log))
    /\ \A i \in DOMAIN log :
          log[i].errors_before = Cardinality(CaughtFailed(1..(i - 1)))
    /\ pc = "check_constants" =>
          Cardinality(Entries(ConstantPhases)) = NumConstantItems
    /\ pc = "check_operators" =>
          Cardinality(Entries({"operator"})) = Cardinality(OtherOperatorsAt)
    /\ RaisedKind = "ConversionFailed" =>
          /\ raised[1][2] = Cardinality(CaughtFailed(DOMAIN log))
          /\ raised[1][2] > 0
          /\ Cardinality(Entries(ConstantPhases)) = NumConstantItems
          /\ raised[1][3] = "operators" =>
                /\ Cardinality(Entries({"operator"})) = Cardinality(OtherOperatorsAt)
                /\ CaughtFailed(DOMAIN log) \subseteq Entries({"operator"})
    /\ \A i \in DOMAIN log :
          ~log[i].caught =>
              /\ i = Len(log)
              /\ log[i].phase = "operator"
              /\ log[i].exc[1][1] = "DuplicateNodeName"
              /\ log[i].exc[1][2] \in Range(onnx_graph.node[log[i].item].output)
              /\ pc = "raised"
              /\ raised = log[i].exc

\* C2 witness: a run ended by ConversionFailed in which an operator was
\* processed after an earlier operator of phase 4 had failed.
C2_Witness ==
    /\ RaisedKind = "ConversionFailed"
    /\ raised[1][3] = "operators"
    /\ \E i, j \in Entries({"operator"}) : i < j /\ log[i].exc # None

SharedInitializerOutput(positions) ==
    \E t \in Range(onnx_graph.initializer) :
        \E j \in positions : t.name \in Range(onnx_graph.node[j].output)

\* An initializer that was registered as a node shares its name with an
\* operator output.
RegisteredInitializerShared ==
    \E i \in Entries({"initializer"}) :
        /\ log[i].exc = None
        /\ \E j \in DOMAIN onnx_graph.node :
              onnx_graph.initializer[log[i].item].name \in Range(onnx_graph.node[j].output)

UniqueNames ==
    /\ \A i, j \in 1..Len(nodes) : nodes[i].name = nodes[j].name => i = j
    /\ DOMAIN tensor_map = {nodes[i].name : i \in 1..Len(nodes)}
    /\ \A i \in 1..Len(nodes) : tensor_map[nodes[i].name] = i - 1

\* C3, as claimed: node names are unique, the map sends each name to its
\* node's position, and a model in which an initializer and an operator
\* output share a name (and in which nothing but a duplicate name goes
\* wrong) fails the run with DuplicateNodeName.
C3_AsClaimed ==
    /\ UniqueNames
    /\ (/\ Ended
        /\ RegisteredInitializerShared
        /\ \A i \in Failed(DOMAIN log) :
              /\ log[i].phase # "initializer"
              /\ log[i].exc[1][1] = "DuplicateNodeName"
              /\ \E t \in Range(onnx_graph.initializer) : log[i].exc[1][2] = t.name)
          => RaisedKind = "DuplicateNodeName"

\* C3, amended: node names are unique and the map sends each name to its
\* node's position; an add_node with a registered name fails with
\* DuplicateNodeName and leaves the node list and the map unchanged; a model
\* in which an initializer and an operator output share a name fails the
\* run: with DuplicateNodeName when the operator is not a Constant and
\* phases 1-2 end without error, with ConversionFailed when the output is a
\* Constant operator's first output (the duplicate is then a counted error
\* of phase 2).
C3_DuplicateNames ==
    /\ [](UniqueNames)
    /\ [][(/\ Len(log') = Len(log) + 1
           /\ log'[Len(log')].phase \in ConstantPhases
           /\ log'[Len(log')].exc # None
           /\ log'[Len(log')].exc[1][1] = "DuplicateNodeName")
          => (/\ nodes' = nodes
              /\ tensor_map' = tensor_map
              /\ log'[Len(log')].exc[1][2] \in DOMAIN tensor_map)]_vars
    /\ [](Ended =>
            /\ SharedInitializerOutput(DOMAIN onnx_graph.node) => raised # None
            /\ (/\ SharedInitializerOutput(OtherOperatorsAt)
                /\ Failed(Entries(ConstantPhases)) = {})
                  => RaisedKind = "DuplicateNodeName"
            /\ (\E t \in Range(onnx_graph.initializer) :
                    \E j \in ConstantOperatorsAt :
                        /\ onnx_graph.node[j].output # <<>>
                        /\ onnx_graph.node[j].output[1] = t.name)
                  => RaisedKind = "ConversionFailed")

\* C3 witness: an initializer and the output of a Clip operator share a name
\* and the run has ended with DuplicateNodeName for that name.
C3_Witness ==
    /\ pc = "raised"
    /\ RaisedKind = "DuplicateNodeName"
    /\ \E t \in Range(onnx_graph.initializer) : raised[1][2] = t.name
    /\ SharedInitializerOutput(OtherOperatorsAt)

NumItems ==
    NumConstantItems + Len(onnx_graph.input) + Cardinality(OtherOperatorsAt)

\* C4: the output file is written only once every item of the four phases
\* has been processed without error and the whole buffer has been built, and
\* a run that ends with an exception has written nothing to the output path.
C4_NoPartialFile ==
    /\ out_file # None =>
          /\ pc = "done"
          /\ raised = None
          /\ graph # None
          /\ conversion_errors = 0
          /\ Failed(DOMAIN log) = {}
          /\ Len(log) = NumItems
          /\ out_file = Some(Serialized(graph[1]))
    /\ raised # None => out_file = None
    /\ pc = "done" => out_file # None

\* C4 witness: the run failed while the buffer was being built, after the
\* four phases had succeeded, and the output path is untouched.
C4_Witness ==
    /\ pc = "raised"
    /\ RaisedKind = "SerializationError"
    /\ graph # None
    /\ out_file = None

\* C5, as claimed: no message is written to standard error more than once
\* in a run, the per-operator error messages of phase 4 included.
C5_AsClaimed == \A i, j \in DOMAIN stderr : stderr[i] = stderr[j] => i = j

NodesAfter(i) == IF i < Len(log) THEN log[i + 1].nodes_before ELSE Len(nodes)

ItemOf(i) ==
    IF log[i].phase = "initializer" THEN onnx_graph.initializer[log[i].item]
    ELSE onnx_graph.node[log[i].item]

\* The tensors constant_node_from_onnx_initializer has been called on, each
\* with the name its node is registered under.
NormalizedTensors ==
    {[tensor |-> onnx_graph.initializer[log[i].item],
      name |-> onnx_graph.initializer[log[i].item].name,
      exc |-> log[i].exc] : i \in Entries({"initializer"})}
    \cup
    {[tensor |-> ItemOf(i).attribute[1].val, name |-> ItemOf(i).output[1],
      exc |-> log[i].exc] :
        i \in {k \in Entries({"constant_op"}) :
                 /\ ItemOf(k).output # <<>>
                 /\ ItemOf(k).attribute # <<>>
                 /\ ItemOf(k).attribute[1].name = "value"
                 /\ ItemOf(k).attribute[1].type = "tensor"}}

\* clamp(v, INT32_MIN, INT32_MAX) of a 64-bit value, as an integer.
ClampToInt32(v) ==
    IF v.hi < -1 THEN INT32_MIN
    ELSE IF v.hi > 0 THEN INT32_MAX
    ELSE IF v.hi = 0 THEN v.lo
    ELSE (v.lo - INT32_MAX) - 1

Occurrences(msg) == Cardinality({k \in DOMAIN stderr : stderr[k] = msg})

\* C6: every element of the node built from an int64 tensor is the clamp of
\* the source element in the same position, an in-range value yields no
\* warning, and each distinct out-of-range value of the tensors normalized so
\* far has been warned about exactly once.
C6_Int64Clamped ==
    /\ \A r \in NormalizedTensors :
          (r.exc = None /\ r.tensor.data_type = "int64") =>
              LET node == nodes[tensor_map[r.name] + 1]
              IN  /\ node.kind = "constant"
                  /\ node.dtype = "int32"
                  /\ node.shape = r.tensor.dims
                  /\ Len(node.data) = Len(r.tensor.data)
                  /\ \A k \in DOMAIN node.data :
                        node.data[k] = ClampToInt32(r.tensor.data[k])
                  /\ r.tensor = ClampedTensor(r.name) =>
                        node.data = <<1, INT32_MIN, 2, 3>>
    /\ \A r \in NormalizedTensors :
          r.tensor.data_type = "int64" =>
              \A k \in DOMAIN r.tensor.data :
                  LET v == r.tensor.data[k]
                  IN  Occurrences(<<"Clamping out-of-range tensor value", v.hi, v.lo>>)
                          = IF v.hi < -1 \/ v.hi > 0 THEN 1 ELSE 0

\* C6 witness: the value -9999999999 has occurred in two normalized tensors,
\* one of them registered with data [1, INT32_MIN, 2, 3], and has been
\* warned about once.
C6_Witness ==
    /\ \E r1, r2 \in NormalizedTensors :
          /\ r1.name # r2.name
          /\ BelowRange \in Range(r1.tensor.data)
          /\ BelowRange \in Range(r2.tensor.data)
          /\ r1.exc = None
          /\ nodes[tensor_map[r1.name] + 1].data = <<1, INT32_MIN, 2, 3>>
    /\ Occurrences(ClampMessage(BelowRange)) = 1

\* The Clip operators of phase 4 whose inputs and outputs resolved, each with
\* at most one of the attributes `min` (input 1) and `max` (input 2).
ClipEntries ==
    {i \in Entries({"operator"}) :
        /\ log[i].caught
        /\ ItemOf(i).op_type = "Clip"
        /\ Len(ItemOf(i).attribute) <= 1
        /\ \A k \in DOMAIN ItemOf(i).input :
              ItemOf(i).input[k] = "" \/ ItemOf(i).input[k] \in log[i].known}

PromotedIndex(attr) == IF attr.name = "min" THEN 1 ELSE 2

ResolvedInputs(op) ==
    [k \in DOMAIN op.input |->
        IF op.input[k] = "" THEN None ELSE Some(tensor_map[op.input[k]])]

\* C7, as claimed: with the attribute present, generate_input_from_attr fails
\* with ConflictingAttributeAndInput exactly when the position holds an input
\* reference; a position past the end or holding None is free.
C7_AsClaimed ==
    \A i \in ClipEntries :
        LET op == ItemOf(i)
        IN  (op.attribute # <<>> /\ op.attribute[1].type = "float") =>
                LET at == PromotedIndex(op.attribute[1])
                IN  (/\ log[i].exc # None
                     /\ log[i].exc[1][1] = "ConflictingAttributeAndInput")
                    <=> (at < Len(op.input) /\ op.input[at + 1] # "")

\* C7, amended: an absent attribute leaves the inputs as resolved and
\* registers no node; a present attribute of the expected type fails with
\* ConflictingAttributeAndInput exactly when inputIndex is a position of the
\* input list, whether that position holds a reference or None; otherwise a
\* constant named '<op name>:wasnn-<attr>' is registered (failing with
\* DuplicateNodeName if that name is taken) and its index is put at
\* inputIndex, the positions before it that are missing being None.  An
\* attribute of another type fails with AttributeTypeMismatch.
C7_AttributeToInput ==
    \A i \in ClipEntries :
        LET op == ItemOf(i)
            placed == log[i].nodes_before + Len(op.output)
            registered == log[i].exc = None
        IN  IF op.attribute = <<>>
            THEN /\ NodesAfter(i) = placed + (IF registered THEN 1 ELSE 0)
                 /\ registered => nodes[NodesAfter(i)].inputs = ResolvedInputs(op)
            ELSE
            LET attr == op.attribute[1]
                at == PromotedIndex(attr)
                generated == op.name \o ":wasnn-" \o attr.name
            IN  IF attr.type # "float"
                THEN /\ log[i].exc = Some(<<"AttributeTypeMismatch", attr.name, "float">>)
                     /\ NodesAfter(i) = placed
                ELSE IF at < Len(op.input)
                THEN /\ log[i].exc =
                            Some(<<"ConflictingAttributeAndInput", attr.name, at>>)
                     /\ NodesAfter(i) = placed
                ELSE IF generated \in log[i].known
                THEN /\ log[i].exc = Some(<<"DuplicateNodeName", generated>>)
                     /\ NodesAfter(i) = placed
                ELSE /\ nodes[placed + 1] =
                            [kind |-> "constant", name |-> generated, shape |-> <<>>,
                             data |-> <<attr.val>>, dtype |-> "float32"]
                     /\ tensor_map[generated] = placed
                     /\ log[i].exc \in {None, Some(<<"DuplicateNodeName", op.name>>)}
                     /\ NodesAfter(i) = placed + (IF registered THEN 2 ELSE 1)
                     /\ registered =>
                           LET inputs == nodes[NodesAfter(i)].inputs
                           IN  /\ Len(inputs) = at + 1
                               /\ inputs[at + 1] = Some(placed)
                               /\ \A k \in 1..at :
                                     inputs[k] = IF k <= Len(op.input)
                                                 THEN ResolvedInputs(op)[k] ELSE None

\* C7 witness: a Clip with one input and a `max` attribute has been
\* registered with inputs [input, None, constant].
C7_Witness ==
    \E i \in ClipEntries :
        /\ log[i].exc = None
        /\ ItemOf(i).attribute # <<>>
        /\ ItemOf(i).attribute[1].name = "max"
        /\ Len(ItemOf(i).input) = 1
        /\ nodes[NodesAfter(i)].inputs[2] = None
        /\ nodes[NodesAfter(i)].inputs[3] = Some(NodesAfter(i) - 2)

\* The operator types with a case in op_node_from_onnx_operator, among those
\* of the source models.
MatchedTypes == {"Clip"}

UnsupportedEntries ==
    {i \in Entries({"operator"}) :
        /\ log[i].caught
        /\ (ItemOf(i).op_type \notin MatchedTypes \/ ItemOf(i).op_type \notin OperatorType)}

OperatorEntries == {i \in Entries({"operator"}) : log[i].caught}

\* The names that something other than an operator after position p can have
\* registered: initializers, graph inputs, the outputs and names of the
\* operators up to p and the constants generated for them.
NamesUpTo(p, constants_anywhere) ==
    {t.name : t \in Range(onnx_graph.initializer)}
    \cup Range(onnx_graph.input)
    \cup UNION {Range(onnx_graph.node[q].output) :
                  q \in {k \in DOMAIN onnx_graph.node :
                           k <= p \/ (constants_anywhere /\ k \in ConstantOperatorsAt)}}
    \cup {onnx_graph.node[q].name : q \in 1..p}
    \cup {onnx_graph.node[q].name \o ":wasnn-" \o a :
            q \in 1..p, a \in {"min", "max"}}

ConsumesLaterOutput(p, constants_anywhere) ==
    \E q \in (p + 1)..Len(onnx_graph.node) :
        \E x \in Range(onnx_graph.node[q].output) :
            /\ x \in Range(onnx_graph.node[p].input)
            /\ x \notin NamesUpTo(p, constants_anywhere)

\* C9, as claimed, last part: an operator that consumes the output of an
\* operator appearing later in source order fails with UnknownReference.
C9_AsClaimed ==
    \A i \in OperatorEntries :
        ConsumesLaterOutput(log[i].item, FALSE) =>
            /\ log[i].exc # None
            /\ log[i].exc[1][1] = "UnknownReference"

\* C9, amended: each non-empty input name resolves to the index registered
\* under it when the operator is processed, an empty name yields None at the
\* same position, and the first non-empty name not registered then fails the
\* operator with UnknownReference; so an operator that consumes a name only
\* a later operator other than a Constant registers fails with
\* UnknownReference, while the output of a Constant operator, registered in
\* phase 2, resolves wherever the Constant appears in source order.
C9_InputResolution ==
    \A i \in OperatorEntries :
        LET op == ItemOf(i)
            unknown == {k \in DOMAIN op.input :
                          op.input[k] # "" /\ op.input[k] \notin log[i].known}
            first == CHOOSE k \in unknown : \A j \in unknown : k <= j
        IN  /\ unknown # {} =>
                  log[i].exc = Some(<<"UnknownReference", "input", op.input[first], op.name>>)
            /\ unknown = {} =>
                  ~(log[i].exc # None /\ log[i].exc[1][1] = "UnknownReference"
                        /\ log[i].exc[1][2] = "input")
            /\ log[i].exc = None =>
                  \A k \in DOMAIN op.input :
                      /\ nodes[NodesAfter(i)].inputs[k] = ResolvedInputs(op)[k]
                      /\ op.input[k] # "" => tensor_map[op.input[k]] < NodesAfter(i) - 1
            /\ ConsumesLaterOutput(log[i].item, TRUE) =>
                  /\ log[i].exc # None
                  /\ log[i].exc[1][1] = "UnknownReference"
            /\ \A q \in ConstantOperatorsAt :
                  (onnx_graph.node[q].output # <<>>) =>
                      onnx_graph.node[q].output[1] \in log[i].known

\* C9 witness: an operator with an empty second input name has been
\* registered with None at that position and its first input resolved.
C9_Witness ==
    \E i \in OperatorEntries :
        /\ log[i].exc = None
        /\ Len(ItemOf(i).input) >= 2
        /\ ItemOf(i).input[2] = ""
        /\ nodes[NodesAfter(i)].inputs[2] = None
        /\ nodes[NodesAfter(i)].inputs[1] = Some(tensor_map[ItemOf(i).input[1]])

\* The names registered in phases 1-2.
ConstantNames ==
    {ItemOf(i).name : i \in {k \in Entries({"initializer"}) : log[k].exc = None}}
    \cup {ItemOf(i).output[1] : i \in {k \in Entries({"constant_op"}) : log[k].exc = None}}

\* C10: a returned graph lists, in declaration order and with repetitions
\* kept, the index of the node named by each declared input and output; a
\* declared input whose name is registered when it is reached creates no
\* ValueNode, and one registered in phases 1-2 resolves to that constant.
C10_GraphInterface ==
    /\ \A i \in Entries({"input"}) :
          LET name == onnx_graph.input[log[i].item]
          IN  IF name \in log[i].known
              THEN NodesAfter(i) = log[i].nodes_before
              ELSE /\ NodesAfter(i) = log[i].nodes_before + 1
                   /\ nodes[NodesAfter(i)].kind = "value"
                   /\ nodes[NodesAfter(i)].name = name
    /\ graph # None =>
          LET gr == graph[1]
          IN  /\ gr.nodes = nodes
              /\ Len(gr.inputs) = Len(onnx_graph.input)
              /\ Len(gr.outputs) = Len(onnx_graph.output)
              /\ \A k \in DOMAIN gr.inputs :
                    /\ gr.inputs[k] \in 0..(Len(nodes) - 1)
                    /\ nodes[gr.inputs[k] + 1].name = onnx_graph.input[k]
                    /\ onnx_graph.input[k] \in ConstantNames =>
                          nodes[gr.inputs[k] + 1].kind = "constant"
              /\ \A k \in DOMAIN gr.outputs :
                    /\ gr.outputs[k] \in 0..(Len(nodes) - 1)
                    /\ nodes[gr.outputs[k] + 1].name = onnx_graph.output[k]

\* C10 witness: a graph has been returned for declared inputs b, a, b and
\* outputs b, a, b, where a is an initializer: inputs and outputs are the
\* indices of b, a, b and no ValueNode was made for a.
C10_Witness ==
    /\ graph # None
    /\ onnx_graph.input = <<"b", "a", "b">>
    /\ onnx_graph.output = <<"b", "a", "b">>
    /\ "a" \in ConstantNames
    /\ graph[1].inputs = <<tensor_map["b"], tensor_map["a"], tensor_map["b"]>>
    /\ graph[1].outputs = graph[1].inputs
    /\ nodes[tensor_map["a"] + 1].kind = "constant"
    /\ Cardinality({k \in DOMAIN nodes : nodes[k].kind = "value"}) = 1

---------------------------------------------------------------------------
(* Properties of the attribute rules                                       *)

IsUnhandledWarning(msg) == msg[1] = "WARNING: Unsupported attribute"

\* The operator of entry i failed in op_node_from_onnx_operator, not in the
\* add_node of its operator node that follows (whose only error is a
\* duplicate of the operator's own name).
TranslationFailed(entry, op) ==
    /\ entry.exc # None
    /\ entry.exc[1] # <<"DuplicateNodeName", op.name>>

\* C11: a step prints an unhandled-attribute warning only if it is the
\* processing of an operator whose translation completed without error, the
\* warning then naming an attribute and the type of that operator; the step
\* of an operator whose translation fails prints none.
C11_WarningsAfterTranslation ==
    [][\A k \in (Len(stderr) + 1)..Len(stderr') :
          IsUnhandledWarning(stderr'[k]) =>
              /\ pc = "operator"
              /\ Len(log') = Len(log) + 1
              /\ ~TranslationFailed(log'[Len(log')], onnx_graph.node[idx])
              /\ log'[Len(log')].caught
              /\ stderr'[k][3] = onnx_graph.node[idx].op_type
              /\ \E a \in Range(onnx_graph.node[idx].attribute) : stderr'[k][2] = a.name]_vars

\* C11 witness: an operator all of whose attributes are unhandled has failed
\* the test of its operator name, and no unhandled-attribute warning has
\* been printed.
C11_Witness ==
    \E i \in Entries({"operator"}) :
        /\ log[i].exc = Some(<<"UnsupportedOperator", ItemOf(i).op_type>>)
        /\ ItemOf(i).attribute # <<>>
        /\ stderr # <<>>
        /\ \A k \in DOMAIN stderr : ~IsUnhandledWarning(stderr[k])

\* The attribute names the reader operations are called with below.
AttributeNames ==
    {"axis", "min", "reduction", "value", "foo", "select_last_index", "absent"}

\* One call of each reader operation with the attribute name `name` on a
\* new reader for the operator op.
ReaderCalls(op, name) ==
    LET rd == ONNXOperatorReader(op, <<>>, G)
    IN  {get_attr(rd, name, "int", None),
         require_attr(rd, name, "int"),
         get_enum_attr(rd, name, ScatterReduction, <<"n", "o", "n", "e">>),
         check_attr(rd, name, "int", {0}),
         generate_input_from_attr(rd, 1, name, "float"),
         ignore_attr(rd, name)}

\* The attribute names the rule of an operator type passes to the reader
\* when it runs to its end on the attributes `attribute`.
NamesRead(op_type, attribute) ==
    CASE op_type = "ArgMax" -> {"axis", "keepdims", "select_last_index"}
      [] op_type = "Clip" -> {"min", "max"}
      [] op_type = "ConstantOfShape" -> {"value"}
      [] op_type = "Conv" ->
            {"dilations", "group", "auto_pad", "strides", "kernel_shape"} \cup
            (IF \E k \in DOMAIN attribute :
                    /\ attribute[k].name = "auto_pad"
                    /\ \A j \in 1..(k - 1) : attribute[j].name # "auto_pad"
                    /\ attribute[k].val # NOTSET
             THEN {} ELSE {"pads"})
      [] op_type = "ScatterElements" -> {"axis", "reduction"}
      [] op_type = "Squeeze" -> {"axes"}
      [] OTHER -> {}

\* C12: each reader operation leaves the name it is called with marked as
\* handled, present or not, failing or not, and unhandled_attrs is the
\* attributes of the record with the names never passed; the warnings of a
\* translated operator are those of the attributes its rule did not name,
\* and an operator translated and registered without error leaves the error
\* count as it was, whatever warnings it caused.
C12_HandledAttributes ==
    /\ \A op \in Range(onnx_graph.node) : \A name \in AttributeNames :
          \A r \in ReaderCalls(op, name) :
              /\ r.handled = {name}
              /\ unhandled_attrs(r) = SelectSeq(op.attribute, LAMBDA a : a.name # name)
              /\ unhandled_attrs(ONNXOperatorReader(op, <<>>, G)) = op.attribute
    /\ {stderr[k] : k \in {j \in DOMAIN stderr : IsUnhandledWarning(stderr[j])}}
          = UNION {{<<"WARNING: Unsupported attribute", a.name, ItemOf(i).op_type>> :
                        a \in {b \in Range(ItemOf(i).attribute) :
                                 b.name \notin NamesRead(ItemOf(i).op_type,
                                                         ItemOf(i).attribute)}} :
                   i \in {j \in OperatorEntries : ~TranslationFailed(log[j], ItemOf(j))}}
    /\ \A i \in OperatorEntries :
          LET op == ItemOf(i)
          IN  log[i].exc = None =>
                  /\ nodes[NodesAfter(i)].kind = "operator"
                  /\ nodes[NodesAfter(i)].name = op.name
                  /\ (IF i < Len(log) THEN log[i + 1].errors_before
                      ELSE conversion_errors) = log[i].errors_before

\* C12 witness: a Conv with the attributes foo and kernel_shape has been
\* converted and written with one warning, for foo; require_attr for an
\* attribute it lacks fails and leaves the name marked.
C12_Witness ==
    /\ pc = "done"
    /\ conversion_errors = 0
    /\ \E i \in OperatorEntries :
          /\ ItemOf(i).op_type = "Conv"
          /\ {a.name : a \in Range(ItemOf(i).attribute)} = {"foo", "kernel_shape"}
          /\ require_attr(ONNXOperatorReader(ItemOf(i), <<>>, G), "value", "int").err
                = Some(<<"MissingRequiredAttribute", "value">>)
          /\ require_attr(ONNXOperatorReader(ItemOf(i), <<>>, G), "value", "int").handled
                = {"value"}
    /\ {k \in DOMAIN stderr : IsUnhandledWarning(stderr[k])} # {}
    /\ \A k \in DOMAIN stderr :
          IsUnhandledWarning(stderr[k]) =>
              stderr[k] = <<"WARNING: Unsupported attribute", "foo", "Conv">>

\* The ConstantOfShape operators processed whose names resolved and whose
\* `value` attribute is a tensor of an element type the converter supports.
ConstantOfShapeEntries ==
    {i \in OperatorEntries :
        /\ ItemOf(i).op_type = "ConstantOfShape"
        /\ ItemOf(i).attribute # <<>>
        /\ ItemOf(i).attribute[1].name = "value"
        /\ ItemOf(i).attribute[1].type = "tensor"
        /\ ItemOf(i).attribute[1].val.data_type \in {"float32", "int64"}
        /\ \A k \in DOMAIN ItemOf(i).input : ItemOf(i).input[k] \in log[i].known}

\* C13, as claimed: a ConstantOfShape is translated exactly when its value
\* tensor holds one element, whatever its rank, with a float scalar record
\* for float32 data and an int scalar record for data normalized to int32;
\* any other element count fails with InvalidScalarShape.
C13_AsClaimed ==
    \A i \in ConstantOfShapeEntries :
        LET tensor == ItemOf(i).attribute[1].val
        IN  IF Len(tensor.data) = 1
            THEN /\ log[i].exc = None
                 /\ nodes[NodesAfter(i)].attrs =
                       Some([type |-> "ConstantOfShapeAttrs",
                             valueType |-> IF tensor.data_type = "float32"
                                           THEN "FloatScalar" ELSE "IntScalar",
                             value |-> ClampToInt32(tensor.data[1])])
            ELSE log[i].exc = Some(<<"InvalidScalarShape", "ConstantOfShape">>)

\* The first attribute of the record with the given name, or None.
FirstAttr(op, name) ==
    LET at == {k \in DOMAIN op.attribute : op.attribute[k].name = name}
    IN  IF at = {} THEN None
        ELSE Some(op.attribute[CHOOSE k \in at : \A j \in at : k <= j])

\* The Conv operators processed whose names resolved and whose rule reaches
\* read_pads: what is read before it (dilations, group) raises nothing.
ConvEntries ==
    {i \in OperatorEntries :
        /\ ItemOf(i).op_type = "Conv"
        /\ \A k \in DOMAIN ItemOf(i).input : ItemOf(i).input[k] \in log[i].known
        /\ FirstAttr(ItemOf(i), "dilations") = None
        /\ FirstAttr(ItemOf(i), "group") \in {None, Some(Attr("group", "int", 2))}}

\* C14: with auto_pad SAME_UPPER or SAME_LOWER the padding mode is Same and
\* no pad list is set; with auto_pad NOTSET or absent the mode is Fixed and
\* the pad list is the `pads` attribute, or [0, 0, 0, 0] without one, a list
\* of a length other than 2 and 4 failing the operator; any other auto_pad
\* string fails with UnsupportedPadMode.  A Conv with pads [1, 1, 1, 1] as
\* its only attribute gets padMode Fixed, pads [1, 1, 1, 1], strides [1, 1]
\* and groups 1.
C14_ReadPads ==
    \A i \in ConvEntries :
        LET op == ItemOf(i)
            auto_pad == FirstAttr(op, "auto_pad")
            pads == FirstAttr(op, "pads")
            strides == FirstAttr(op, "strides")
            strides_fail == strides # None /\ Len(strides[1].val) \notin {1, 2}
            attrs == nodes[NodesAfter(i)].attrs[1]
            after_pads ==
                IF strides_fail
                THEN log[i].exc = Some(<<"InvalidAttributeLength", "strides", {1, 2}>>)
                ELSE /\ log[i].exc = None
                     /\ attrs.strides = IF strides = None THEN <<1, 1>> ELSE strides[1].val
                     /\ attrs.groups = IF FirstAttr(op, "group") = None THEN 1 ELSE 2
        IN  IF auto_pad # None /\ auto_pad[1].type # "string"
            THEN log[i].exc = Some(<<"AttributeTypeMismatch", "auto_pad", "string">>)
            ELSE IF auto_pad # None /\ auto_pad[1].val \in {SAME_UPPER, SAME_LOWER}
            THEN /\ after_pads
                 /\ log[i].exc = None => attrs.padMode = "Same" /\ attrs.pads = None
            ELSE IF auto_pad = None \/ auto_pad[1].val = NOTSET
            THEN LET list == IF pads = None THEN <<0, 0, 0, 0>> ELSE pads[1].val
                 IN  IF Len(list) \notin {2, 4}
                     THEN /\ log[i].exc # None
                          /\ log[i].exc[1][1] = "InvalidAttributeLength"
                          /\ log[i].exc[1][2] = "padding"
                     ELSE /\ after_pads
                          /\ log[i].exc = None =>
                                attrs.padMode = "Fixed" /\ attrs.pads = Some(list)
                          /\ op.attribute = <<Attr("pads", "ints", <<1, 1, 1, 1>>)>> =>
                                nodes[NodesAfter(i)].attrs =
                                    Some([type |-> "ConvAttrs", dilations |-> <<1, 1>>,
                                          groups |-> 1, padMode |-> "Fixed",
                                          pads |-> Some(<<1, 1, 1, 1>>),
                                          strides |-> <<1, 1>>])
            ELSE log[i].exc = Some(<<"UnsupportedPadMode", auto_pad[1].val>>)

\* C14 witness: the Conv whose only attribute is pads [1, 1, 1, 1] has been
\* registered with padMode Fixed and that pad list.
C14_Witness ==
    \E i \in ConvEntries :
        /\ ItemOf(i).attribute = <<Attr("pads", "ints", <<1, 1, 1, 1>>)>>
        /\ log[i].exc = None
        /\ nodes[NodesAfter(i)].attrs[1].padMode = "Fixed"
        /\ nodes[NodesAfter(i)].attrs[1].pads = Some(<<1, 1, 1, 1>>)

\* C15: the file written holds one serialized node for each node of the
\* graph, in the order of the node list and with its name and kind; the
\* inputs and outputs vectors are graph.inputs and graph.outputs element by
\* element; each operator's inputs vector has -1 where its input list has
\* None and the index itself elsewhere, and likewise its outputs.
C15_SerializedOrder ==
    out_file # None =>
        LET model == out_file[1]
            gr == graph[1]
        IN  /\ Len(model.nodes) = Len(gr.nodes)
            /\ model.inputs = gr.inputs
            /\ model.outputs = gr.outputs
            /\ \A k \in DOMAIN gr.nodes :
                  LET node == gr.nodes[k]
                      written == model.nodes[k]
                  IN  /\ written.name = node.name
                      /\ written.data_type =
                            (CASE node.kind = "constant" -> "ConstantNode"
                               [] node.kind = "operator" -> "OperatorNode"
                               [] node.kind = "value" -> "ValueNode")
                      /\ node.kind = "constant" =>
                            written.shape = node.shape /\ written.data = node.data
                      /\ node.kind = "operator" =>
                            /\ written.type = node.op_type
                            /\ Len(written.inputs) = Len(node.inputs)
                            /\ Len(written.outputs) = Len(node.outputs)
                            /\ \A j \in DOMAIN node.inputs :
                                  written.inputs[j] =
                                      IF node.inputs[j] = None THEN -1
                                      ELSE node.inputs[j][1]
                            /\ \A j \in DOMAIN node.outputs :
                                  written.outputs[j] = node.outputs[j][1]

\* C15 witness: a file has been written for a graph with declared inputs
\* b, a, b whose operator has the input list [a, None, constant]: its inputs
\* vector holds -1 in the middle.
C15_Witness ==
    /\ out_file # None
    /\ Len(out_file[1].inputs) = 3
    /\ out_file[1].inputs[1] # out_file[1].inputs[2]
    /\ \E k \in DOMAIN nodes :
          /\ nodes[k].kind = "operator"
          /\ Len(nodes[k].inputs) = 3
          /\ nodes[k].inputs[2] = None
          /\ out_file[1].nodes[k].inputs =
                <<nodes[k].inputs[1][1], -1, nodes[k].inputs[3][1]>>
          /\ nodes[k].inputs[1][1] # nodes[k].inputs[3][1]

\* The shapes ConstantNode is constructed with below.
Shapes == SeqsUpTo(0..4, 2)

ConstantNodes == {k \in DOMAIN nodes : nodes[k].kind = "constant"}

\* C16: every constant node of the node list has product(shape) equal to the
\* length of its data, and constructing a ConstantNode from the data of any
\* of them with any shape succeeds when the product of the shape (1 for the
\* empty shape) is that length and fails with ShapeMismatch when it is not.
C16_ShapeMatchesData ==
    /\ \A k \in ConstantNodes : Product(nodes[k].shape) = Len(nodes[k].data)
    /\ \A k \in ConstantNodes : \A shape \in Shapes :
          LET data == nodes[k].data
              made == ConstantNode(nodes[k].name, shape, data, nodes[k].dtype)
          IN  IF Product(shape) = Len(data)
              THEN /\ made.err = None
                   /\ made.node[1].shape = shape
                   /\ made.node[1].data = data
              ELSE /\ made.err = Some(<<"ShapeMismatch", nodes[k].name, shape, Len(data)>>)
                   /\ made.node = None
    /\ \A k \in ConstantNodes :
          ConstantNode(nodes[k].name, <<>>, nodes[k].data, nodes[k].dtype).err = None
              <=> Len(nodes[k].data) = 1

\* C16 witness: the node list holds a constant from an initializer, one from
\* a Constant operator and one promoted from an `axes` attribute of two
\* values, and the data of the last does not make a node of shape [3].
C16_Witness ==
    /\ "a" \in DOMAIN tensor_map /\ nodes[tensor_map["a"] + 1].shape = <<2, 2>>
    /\ "b" \in DOMAIN tensor_map /\ nodes[tensor_map["b"] + 1].shape = <<3>>
    /\ \E k \in ConstantNodes :
          /\ nodes[k].name = "n:wasnn-axes"
          /\ nodes[k].shape = <<2>>
          /\ nodes[k].data = <<0, 1>>
          /\ ConstantNode("x", <<3>>, nodes[k].data, "int32").err
                = Some(<<"ShapeMismatch", "x", <<3>>, 2>>)

\* The ScatterElements operators processed whose names resolved and whose
\* `reduction` attribute, if there is one, is a string (`axis` is an int in
\* all source models).
ScatterEntries ==
    {i \in OperatorEntries :
        /\ ItemOf(i).op_type = "ScatterElements"
        /\ \A k \in DOMAIN ItemOf(i).input : ItemOf(i).input[k] \in log[i].known
        /\ FirstAttr(ItemOf(i), "reduction") # None =>
              FirstAttr(ItemOf(i), "reduction")[1].type = "string"}

\* The words of a string with the first character of each in upper case,
\* joined.
PascalCased(val) ==
    join([k \in DOMAIN split(val) |->
            IF split(val)[k] = <<>> THEN <<>>
            ELSE <<upper(split(val)[k][1])>> \o Tail(split(val)[k])])

\* C17, as claimed: the attribute string, or the default, is Pascal-cased
\* and the result, or the result with a trailing underscore, names the
\* variant found; every string that names no variant so, the empty string
\* and the strings with an empty word among them, fails with
\* UnsupportedEnumValue.
C17_AsClaimed ==
    \A i \in ScatterEntries :
        LET given == FirstAttr(ItemOf(i), "reduction")
            val == IF given = None THEN <<"n", "o", "n", "e">> ELSE given[1].val
            whole == \A k \in DOMAIN split(val) : split(val)[k] # <<>>
            pascal_case == PascalCased(val)
        IN  IF whole /\ pascal_case \in ScatterReduction
            THEN /\ log[i].exc = None
                 /\ nodes[NodesAfter(i)].attrs[1].reduction = pascal_case
            ELSE IF whole /\ pascal_case \o <<"_">> \in ScatterReduction
            THEN /\ log[i].exc = None
                 /\ nodes[NodesAfter(i)].attrs[1].reduction = pascal_case \o <<"_">>
            ELSE log[i].exc = Some(<<"UnsupportedEnumValue", "reduction", val>>)

\* The indices an operator node refers to are positions of the list `list`
\* before the operator node's own.
RefersBack(list) ==
    \A k \in DOMAIN list :
        list[k].kind = "operator" =>
            /\ \A j \in DOMAIN list[k].inputs :
                  list[k].inputs[j] # None => list[k].inputs[j][1] \in 0..(k - 2)
            /\ \A j \in DOMAIN list[k].outputs :
                  /\ list[k].outputs[j] # None
                  /\ list[k].outputs[j][1] \in 0..(k - 2)

\* C18: in every state of a conversion and in the graph returned, each
\* output index and each input index that is not None of an operator node is
\* a position of the node list smaller than the operator node's own.
C18_IndicesPrecede ==
    /\ RefersBack(nodes)
    /\ graph # None => RefersBack(graph[1].nodes)

\* C18 witness: a graph has been returned with an operator node that has an
\* output, a resolved input and, as its second input, the constant promoted
\* from its attribute, registered just before it.
C18_Witness ==
    /\ graph # None
    /\ \E k \in DOMAIN graph[1].nodes :
          LET node == graph[1].nodes[k]
          IN  /\ node.kind = "operator"
              /\ Len(node.outputs) = 1
              /\ Len(node.inputs) = 2
              /\ node.inputs[1] # None
              /\ node.inputs[2] = Some(k - 2)
              /\ graph[1].nodes[k - 1].kind = "constant"
              /\ node.outputs[1] = Some(k - 3)

\* The operators processed before entry j whose translation failed.
FailedBefore(j) ==
    {i \in OperatorEntries : i < j /\ TranslationFailed(log[i], ItemOf(i))}

\* What stays of a failed operator: its output placeholders, and the
\* constant promoted from a first attribute `min` that is a float on an
\* operator with at most one input.
KeepsRegistered(i) ==
    LET op == ItemOf(i)
        generated == op.name \o ":wasnn-min"
    IN  /\ \A x \in Range(op.output) :
              /\ x \in DOMAIN tensor_map
              /\ nodes[tensor_map[x] + 1].name = x
              /\ tensor_map[x] >= log[i].nodes_before
        /\ (/\ op.op_type = "Clip"
            /\ \A k \in DOMAIN op.input : op.input[k] \in log[i].known
            /\ op.attribute # <<>>
            /\ op.attribute[1] = Attr("min", "float", 0)
            /\ Len(op.input) <= 1
            /\ generated \notin log[i].known)
           => /\ generated \in DOMAIN tensor_map
              /\ nodes[tensor_map[generated] + 1].kind = "constant"
              /\ nodes[tensor_map[generated] + 1].name = generated

\* C19: no step removes or moves a node or changes the index of a name; the
\* output placeholders of an operator whose translation failed, and the
\* constant promoted for it before the failure, stay registered, and an
\* operator processed later does not fail with UnknownReference on a name
\* that is an output of an operator processed before it.
C19_AppendOnly ==
    /\ [][/\ Len(nodes') >= Len(nodes)
          /\ SubSeq(nodes', 1, Len(nodes)) = nodes
          /\ \A x \in DOMAIN tensor_map :
                x \in DOMAIN tensor_map' /\ tensor_map'[x] = tensor_map[x]]_vars
    /\ [](\A i \in OperatorEntries :
              TranslationFailed(log[i], ItemOf(i)) => KeepsRegistered(i))
    /\ [](\A j \in OperatorEntries : \A i \in FailedBefore(j) :
              \A x \in Range(ItemOf(i).output) :
                  /\ x \in log[j].known
                  /\ log[j].exc # Some(<<"UnknownReference", "input", x, ItemOf(j).name>>))

\* C19 witness: a Clip promoted its `min` attribute and then failed on its
\* `max` attribute; the promoted constant and the placeholder of its output
\* are registered, and the operator consuming that output has been
\* registered.
C19_Witness ==
    \E j \in OperatorEntries : \E i \in FailedBefore(j) :
        /\ ItemOf(i).attribute = <<Attr("min", "float", 0), Attr("max", "int", 6)>>
        /\ log[i].exc = Some(<<"AttributeTypeMismatch", "max", "float">>)
        /\ (ItemOf(i).name \o ":wasnn-min") \in DOMAIN tensor_map
        /\ ItemOf(i).output = <<"c">>
        /\ "c" \in DOMAIN tensor_map
        /\ ItemOf(j).input = <<"c">>
        /\ log[j].exc = None
        /\ nodes[Len(nodes)].inputs = <<Some(tensor_map["c"])>>

====
